---- MODULE Spec2Model ----
(***************************************************************************)
(* TaskPro AI (src/App.tsx): the App component as a state machine.         *)
(*                                                                         *)
(* Representation.                                                         *)
(*   - A JavaScript string is a sequence of one-character strings, so that *)
(*     toLowerCase and includes are computed character by character.       *)
(*   - A due date ('YYYY-MM-DD') is the ordinal of its calendar day; "now" *)
(*     is the variable today, fixed along a behaviour.  Malformed due      *)
(*     dates are outside the modelled domain.                              *)
(*   - A JavaScript value held by the tasks / labels state is a record     *)
(*     [type, items]: items are the elements when type = "array".          *)
(*   - A localStorage entry is a record [kind, doc]: kind is "absent"      *)
(*     (getItem returns null), "empty" (the string ''), "garbage" (text    *)
(*     JSON.parse rejects) or "json"; doc models the JSON text as the      *)
(*     document it denotes, objects being ordered lists of key/value       *)
(*     pairs.                                                              *)
(*   - mobileMenuOpen only drives a CSS class and is left out, and so are  *)
(*     the list / agenda buttons, which set viewType alone.                *)
(***************************************************************************)
EXTENDS Integers, Sequences, FiniteSets

VARIABLES
    tasks,              \* useState<Task[]>            (App.tsx:14)
    labels,             \* useState<Label[]>           (App.tsx:23)
    viewType,           \* 'list' | 'agenda' | 'notes' (App.tsx:32)
    activeRange,        \* TimeRange                   (App.tsx:33)
    isTaskModalOpen,    \* App.tsx:34
    isLabelManagerOpen, \* App.tsx:35
    editingTask,        \* Task | null as <<t>> | <<>> (App.tsx:36)
    searchQuery,        \* App.tsx:37
    storedTasks,        \* localStorage['tasks_v4_premium']
    storedLabels,       \* localStorage['labels_v4_premium']
    today,              \* the calendar day of "now"
    phase,              \* "init" (state built, not rendered), "running", "crashed"
    pc,                 \* "idle", or "confirm" while window.confirm blocks deleteTask
    confirmId,          \* the id deleteTask was called with, while pc = "confirm"
    modalVia,           \* history: what opened the task modal ("new", "edit"), while open
    lastOp              \* history: the handler the last step ran

vars == <<tasks, labels, viewType, activeRange, isTaskModalOpen, isLabelManagerOpen,
          editingTask, searchQuery, storedTasks, storedLabels, today, phase, pc,
          confirmId, modalVia, lastOp>>

-----------------------------------------------------------------------------
(* Bounds *)

MaxTasks == 2
MaxLabels == 2
MaxDay == 3
MaxViewTasks == 2

Days == 0..MaxDay
\* "now" leaves room for a past day, tomorrow and a later day.
Todays == 1..(MaxDay - 2)

-----------------------------------------------------------------------------
(* Strings *)

LowerChar(c) ==
    CASE c = "A" -> "a"
      [] c = "B" -> "b"
      [] OTHER -> c

toLowerCase(s) == [i \in 1..Len(s) |-> LowerChar(s[i])]

includes(s, q) ==
    \E i \in 0..(Len(s) - Len(q)) : SubSeq(s, i + 1, i + Len(q)) = q

\* x || '' for a string x
OrEmpty(s) == IF s = <<>> THEN <<>> ELSE s

-----------------------------------------------------------------------------
(* utils/dateUtils.ts and new Date(...).getTime() *)

isToday(d) == d = today
isTomorrow(d) == d = today + 1
isPast(d) == d < today
getLocalDateString == today

\* new Date('YYYY-MM-DD').getTime(): UTC midnight of the day, in milliseconds
DateGetTime(d) == d * 86400000

-----------------------------------------------------------------------------
(* Values *)

JsArray(s) == [type |-> "array", items |-> s]
JsOther(t) == [type |-> t, items |-> <<>>]

Range(s) == {s[i] : i \in 1..Len(s)}

RECURSIVE FilterSeq(_, _)
\* Array.prototype.filter with the set of kept indices given by keep
FilterSeq(s, keep) ==
    IF s = <<>> THEN <<>>
    ELSE LET front == FilterSeq(SubSeq(s, 1, Len(s) - 1), keep)
         IN  IF Len(s) \in keep THEN Append(front, s[Len(s)]) ELSE front

-----------------------------------------------------------------------------
(* stats (useMemo, App.tsx:48-55) *)

StatsUpcomingMutant(t) == ~isPast(t.dueDate) /\ ~isToday(t.dueDate) /\ ~t.completed

StatsTodayMutant(t) == isToday(t.dueDate)

StatsPast(t) == isPast(t.dueDate) /\ ~t.completed
StatsToday(t) == isToday(t.dueDate) /\ ~t.completed
StatsTomorrow(t) == isTomorrow(t.dueDate) /\ ~t.completed
StatsUpcoming(t) ==
    ~isPast(t.dueDate) /\ ~isToday(t.dueDate) /\ ~isTomorrow(t.dueDate) /\ ~t.completed

\* tasks.filter(t => ...).length for each of the four predicates
stats ==
    LET ts == tasks.items IN
    [past     |-> Len(FilterSeq(ts, {i \in 1..Len(ts) : StatsPast(ts[i])})),
     today    |-> Len(FilterSeq(ts, {i \in 1..Len(ts) : StatsToday(ts[i])})),
     tomorrow |-> Len(FilterSeq(ts, {i \in 1..Len(ts) : StatsTomorrow(ts[i])})),
     upcoming |-> Len(FilterSeq(ts, {i \in 1..Len(ts) : StatsUpcoming(ts[i])}))]

-----------------------------------------------------------------------------
(* filteredTasks (useMemo, App.tsx:57-79) *)

MatchesSearchMutant(task) ==
    includes(OrEmpty(task.title), searchQuery)
        \/ includes(OrEmpty(task.description), searchQuery)

MatchesSearch(task) ==
    LET titleLower == toLowerCase(OrEmpty(task.title))
        descLower  == toLowerCase(OrEmpty(task.description))
        queryLower == toLowerCase(searchQuery)
    IN  includes(titleLower, queryLower) \/ includes(descLower, queryLower)

\* the range test of the filter callback (App.tsx:66-74) for range r
RangePredicate(r, task) ==
    CASE r = "all"      -> TRUE
      [] r = "today"    -> isToday(task.dueDate)
      [] r = "tomorrow" -> isTomorrow(task.dueDate)
      [] r = "past"     -> isPast(task.dueDate)
      [] r = "upcoming" ->
             ~isPast(task.dueDate) /\ ~isToday(task.dueDate) /\ ~isTomorrow(task.dueDate)
      [] OTHER -> TRUE

FilterPredicate(task) ==
    IF ~MatchesSearch(task) THEN FALSE ELSE RangePredicate(activeRange, task)

CompareMutant(a, b) == DateGetTime(a.dueDate) - DateGetTime(b.dueDate)

\* the comparator handed to sort (App.tsx:75-78)
Compare(a, b) ==
    IF a.completed # b.completed
    THEN (IF a.completed THEN 1 ELSE -1)
    ELSE DateGetTime(a.dueDate) - DateGetTime(b.dueDate)

\* x placed before the first element that must come after it
Insert(x, s) ==
    LET after == {i \in 1..Len(s) : Compare(s[i], x) > 0}
        k == IF after = {} THEN Len(s) + 1
             ELSE CHOOSE i \in after : \A j \in after : i <= j
    IN  SubSeq(s, 1, k - 1) \o <<x>> \o SubSeq(s, k, Len(s))

RECURSIVE Sort(_)
\* Array.prototype.sort: a stable sort by Compare
Sort(s) ==
    IF s = <<>> THEN <<>>
    ELSE Insert(s[Len(s)], Sort(SubSeq(s, 1, Len(s) - 1)))

filteredTasks ==
    Sort(FilterSeq(tasks.items, {i \in 1..Len(tasks.items) : FilterPredicate(tasks.items[i])}))

-----------------------------------------------------------------------------
(* JSON.stringify / JSON.parse on task and label arrays *)

TaskKeys == <<"id", "title", "description", "dueDate", "completed", "priority",
              "labelIds", "createdAt">>
LabelKeys == <<"id", "name", "color">>

\* an object written as its own properties, in property order
ObjectToJson(o, keys) ==
    LET present == FilterSeq(keys, {i \in 1..Len(keys) : keys[i] \in DOMAIN o})
    IN  [i \in 1..Len(present) |-> <<present[i], o[present[i]]>>]

\* an object read back: the last pair of a key gives its value
JsonToObject(pairs) ==
    [k \in {pairs[i][1] : i \in 1..Len(pairs)} |->
        pairs[CHOOSE i \in 1..Len(pairs) :
                  /\ pairs[i][1] = k
                  /\ \A j \in (i + 1)..Len(pairs) : pairs[j][1] # k][2]]

JSONstringify(v, keys) ==
    [type |-> v.type, items |-> [i \in 1..Len(v.items) |-> ObjectToJson(v.items[i], keys)]]

JSONparse(doc) ==
    [type |-> doc.type, items |-> [i \in 1..Len(doc.items) |-> JsonToObject(doc.items[i])]]

NoDoc == [type |-> "none", items |-> <<>>]
Absent == [kind |-> "absent", doc |-> NoDoc]
EmptyString == [kind |-> "empty", doc |-> NoDoc]
Garbage == [kind |-> "garbage", doc |-> NoDoc]
JsonText(doc) == [kind |-> "json", doc |-> doc]

-----------------------------------------------------------------------------
(* constants.tsx: the seed data *)

SeedLabelId == <<"seed", 1>>

INITIAL_LABELS ==
    JsArray(<< [id |-> SeedLabelId, name |-> <<"W">>, color |-> <<"c">>] >>)

INITIAL_TASKS ==
    JsArray(<< [id |-> "seed1", title |-> <<"A", "b">>, description |-> <<>>,
                dueDate |-> 1, completed |-> FALSE, priority |-> "high",
                labelIds |-> <<SeedLabelId>>, createdAt |-> 1] >>)

-----------------------------------------------------------------------------
(* useState initializers (App.tsx:14-30) *)

LoadMutant(saved, seed) ==
    IF saved.kind = "json" /\ saved.doc.type = "array" /\ saved.doc.items # <<>>
    THEN JSONparse(saved.doc)
    ELSE seed

\* try { saved ? JSON.parse(saved) : seed } catch { seed }
Load(saved, seed) ==
    CASE saved.kind = "absent"  -> seed
      [] saved.kind = "empty"   -> seed
      [] saved.kind = "garbage" -> seed
      [] OTHER                  -> JSONparse(saved.doc)

LoadTasks == Load(storedTasks, INITIAL_TASKS)
LoadLabels == Load(storedLabels, INITIAL_LABELS)

(* persistence effects (App.tsx:40-46) *)
PersistTasks(v) == JsonText(JSONstringify(v, TaskKeys))
PersistLabels(v) == JsonText(JSONstringify(v, LabelKeys))

-----------------------------------------------------------------------------
(* Inputs *)

\* values of Math.random().toString(36).substr(2, 9)
RandomIds == {"r1", "r2"}
\* values of Date.now()
ClockValues == {1, 2}
LabelNames == {<<"n">>}
LabelColors == {<<"c">>}

\* what TaskModal / NotesView hand to onSave / onUpdateTask: a Partial<Task>
\* (here the title, the description and the due date; the other keys are absent)
Forms == {[title |-> <<"a", "B">>, description |-> <<"b">>, dueDate |-> 3]}

StoredTask ==
    [id |-> "r1", title |-> <<"a", "B">>, description |-> <<"b">>, dueDate |-> 3,
     completed |-> TRUE, priority |-> "medium", labelIds |-> <<>>, createdAt |-> 1]

\* what localStorage may hold when the page is opened
StoredTaskChoices ==
    {Absent, EmptyString, Garbage,
     JsonText(JsOther("null")), JsonText(JsOther("object")), JsonText(JsOther("number")),
     PersistTasks(JsArray(<<>>)), PersistTasks(JsArray(<<StoredTask>>))}
StoredLabelChoices ==
    {Absent, Garbage, JsonText(JsOther("null")), PersistLabels(JsArray(<<>>))}

-----------------------------------------------------------------------------
(* The App component *)

Init ==
    /\ today = 1
    /\ storedTasks \in StoredTaskChoices
    /\ storedLabels \in StoredLabelChoices
    /\ tasks = LoadTasks
    /\ labels = LoadLabels
    /\ viewType = "list"
    /\ activeRange = "today"
    /\ isTaskModalOpen = FALSE
    /\ isLabelManagerOpen = FALSE
    /\ editingTask = <<>>
    /\ searchQuery = <<>>
    /\ phase = "init"
    /\ pc = "idle"
    /\ confirmId = "none"
    /\ modalVia = "none"
    /\ lastOp = "other"

Idle == phase = "running" /\ pc = "idle"

\* The first render and the mount effects.  tasks.filter (App.tsx:50) throws on
\* a value that is no array, and nothing catches it.
Mount ==
    /\ phase = "init"
    /\ IF tasks.type = "array"
       THEN /\ phase' = "running"
            /\ storedTasks' = PersistTasks(tasks)
            /\ storedLabels' = PersistLabels(labels)
       ELSE /\ phase' = "crashed"
            /\ UNCHANGED <<storedTasks, storedLabels>>
    /\ UNCHANGED <<tasks, labels, viewType, activeRange, isTaskModalOpen,
                   isLabelManagerOpen, editingTask, searchQuery, today, pc, confirmId,
                   modalVia, lastOp>>

\* The page is reloaded: every useState starts again from its initializer.
Restart ==
    /\ phase \in {"running", "crashed"}
    /\ tasks' = LoadTasks
    /\ labels' = LoadLabels
    /\ viewType' = "list"
    /\ activeRange' = "today"
    /\ isTaskModalOpen' = FALSE
    /\ isLabelManagerOpen' = FALSE
    /\ editingTask' = <<>>
    /\ searchQuery' = <<>>
    /\ phase' = "init"
    /\ pc' = "idle"
    /\ confirmId' = "none"
    /\ modalVia' = "none"
    /\ lastOp' = "other"
    /\ UNCHANGED <<storedTasks, storedLabels, today>>

\* SidebarItem onClick (App.tsx:139-179)
SelectRange(r) ==
    /\ Idle
    /\ activeRange' = r
    /\ viewType' = CASE r = "upcoming" -> "agenda"
                     [] r = "all"      -> "notes"
                     [] OTHER          -> "list"
    /\ lastOp' = "other"
    /\ UNCHANGED <<tasks, labels, isTaskModalOpen, isLabelManagerOpen, editingTask,
                   searchQuery, storedTasks, storedLabels, today, phase, pc, confirmId,
                   modalVia>>

\* updateTask (App.tsx:81-83): { ...t, ...updates } on every task with the id
Merge(t, updates) ==
    [k \in DOMAIN t \cup DOMAIN updates |->
        IF k \in DOMAIN updates THEN updates[k] ELSE t[k]]

updateTaskMutant(list, id, updates) ==
    [i \in 1..Len(list) |-> Merge(list[i], updates)]

updateTask(list, id, updates) ==
    [i \in 1..Len(list) |-> IF list[i].id = id THEN Merge(list[i], updates) ELSE list[i]]

\* setTasks followed by the render and the tasks effect
SetTasks(list) ==
    /\ tasks' = JsArray(list)
    /\ storedTasks' = PersistTasks(JsArray(list))

\* TaskItem, AgendaView and NotesView are rendered for the tasks of filteredTasks
\* (App.tsx:224-247).  searchQuery is never set, and range 'all' (Notas & Detalhes,
\* then the list or agenda button) renders every task in each view, so a handler
\* of a task is enabled for every task of the list.
Rendered(t) == \E i \in 1..Len(tasks.items) : tasks.items[i] = t

newTask(taskData, rnd) ==
    [id          |-> rnd,
     title       |-> IF "title" \in DOMAIN taskData THEN OrEmpty(taskData.title) ELSE <<>>,
     description |-> IF "description" \in DOMAIN taskData
                     THEN OrEmpty(taskData.description) ELSE <<>>,
     dueDate     |-> IF "dueDate" \in DOMAIN taskData
                     THEN taskData.dueDate ELSE getLocalDateString,
     completed   |-> FALSE,
     priority    |-> IF "priority" \in DOMAIN taskData THEN taskData.priority ELSE "medium",
     labelIds    |-> IF "labelIds" \in DOMAIN taskData THEN taskData.labelIds ELSE <<>>,
     createdAt   |-> today]

\* saveTask (App.tsx:85-103)
saveTask(taskData, rnd) ==
    /\ Idle
    /\ isTaskModalOpen
    /\ IF editingTask # <<>>
       THEN SetTasks(updateTask(tasks.items, editingTask[1].id, taskData))
       ELSE /\ Len(tasks.items) < MaxTasks
            /\ SetTasks(<<newTask(taskData, rnd)>> \o tasks.items)
    /\ isTaskModalOpen' = FALSE
    /\ editingTask' = <<>>
    /\ modalVia' = "none"
    /\ lastOp' = IF editingTask # <<>> THEN "saveTaskEdit" ELSE "saveTaskNew"
    /\ UNCHANGED <<labels, viewType, activeRange, isLabelManagerOpen, searchQuery,
                   storedLabels, today, phase, pc, confirmId>>

\* toggleTask (App.tsx:105)
toggleTask(id) ==
    /\ Idle
    /\ \E t \in Range(tasks.items) : t.id = id /\ Rendered(t)
    /\ LET found == {i \in 1..Len(tasks.items) : tasks.items[i].id = id}
           first == CHOOSE i \in found : \A j \in found : i <= j
       IN  SetTasks(updateTask(tasks.items, id,
                               [completed |-> ~tasks.items[first].completed]))
    /\ lastOp' = "other"
    /\ UNCHANGED <<labels, viewType, activeRange, isTaskModalOpen, isLabelManagerOpen,
                   editingTask, searchQuery, storedLabels, today, phase, pc, confirmId,
                   modalVia>>

\* NotesView onUpdateTask (App.tsx:225)
NotesUpdateTask(id, updates) ==
    /\ Idle
    /\ \E t \in Range(tasks.items) : t.id = id /\ Rendered(t)
    /\ SetTasks(updateTask(tasks.items, id, updates))
    /\ lastOp' = "other"
    /\ UNCHANGED <<labels, viewType, activeRange, isTaskModalOpen, isLabelManagerOpen,
                   editingTask, searchQuery, storedLabels, today, phase, pc, confirmId,
                   modalVia>>

\* deleteTask (App.tsx:106-110) up to the confirm dialog, which blocks the page
deleteTask(id) ==
    /\ Idle
    /\ \E t \in Range(tasks.items) : t.id = id /\ Rendered(t)
    /\ pc' = "confirm"
    /\ confirmId' = id
    /\ lastOp' = "other"
    /\ UNCHANGED <<tasks, labels, viewType, activeRange, isTaskModalOpen,
                   isLabelManagerOpen, editingTask, searchQuery, storedTasks,
                   storedLabels, today, phase, modalVia>>

deleteFilterMutant(list, id) ==
    FilterSeq(list, {i \in 1..Len(list) : list[i].id = id})

deleteFilter(list, id) ==
    FilterSeq(list, {i \in 1..Len(list) : list[i].id # id})

\* the dialog is answered: confirm(...) returns answer
ConfirmAnswer(answer) ==
    /\ phase = "running"
    /\ pc = "confirm"
    /\ IF answer
       THEN SetTasks(deleteFilter(tasks.items, confirmId))
       ELSE UNCHANGED <<tasks, storedTasks>>
    /\ pc' = "idle"
    /\ confirmId' = "none"
    /\ lastOp' = IF answer THEN "deleteConfirmed" ELSE "deleteDeclined"
    /\ UNCHANGED <<labels, viewType, activeRange, isTaskModalOpen, isLabelManagerOpen,
                   editingTask, searchQuery, storedLabels, today, phase, modalVia>>

\* "+ NOVA TAREFA" (App.tsx:217)
OpenNewTask ==
    /\ Idle
    /\ isTaskModalOpen' = TRUE
    /\ modalVia' = IF isTaskModalOpen THEN modalVia ELSE "new"
    /\ lastOp' = "other"
    /\ UNCHANGED <<tasks, labels, viewType, activeRange, isLabelManagerOpen, editingTask,
                   searchQuery, storedTasks, storedLabels, today, phase, pc, confirmId>>

\* EmptyState onAction (App.tsx:228, 240)
EmptyStateAction ==
    /\ Idle
    /\ viewType = "list"
    /\ Len(filteredTasks) = 0
    /\ isTaskModalOpen' = TRUE
    /\ modalVia' = IF isTaskModalOpen THEN modalVia ELSE "new"
    /\ lastOp' = "other"
    /\ UNCHANGED <<tasks, labels, viewType, activeRange, isLabelManagerOpen, editingTask,
                   searchQuery, storedTasks, storedLabels, today, phase, pc, confirmId>>

\* TaskItem / AgendaView onEdit (App.tsx:236, 245)
EditTask(t) ==
    /\ Idle
    /\ Rendered(t)
    /\ editingTask' = <<t>>
    /\ isTaskModalOpen' = TRUE
    /\ modalVia' = "edit"
    /\ lastOp' = "other"
    /\ UNCHANGED <<tasks, labels, viewType, activeRange, isLabelManagerOpen, searchQuery,
                   storedTasks, storedLabels, today, phase, pc, confirmId>>

onCloseEditingMutant == editingTask

onCloseEditing == <<>>

\* TaskModal onClose (App.tsx:257)
CloseTaskModal ==
    /\ Idle
    /\ isTaskModalOpen
    /\ isTaskModalOpen' = FALSE
    /\ editingTask' = onCloseEditing
    /\ modalVia' = "none"
    /\ lastOp' = "other"
    /\ UNCHANGED <<tasks, labels, viewType, activeRange, isLabelManagerOpen, searchQuery,
                   storedTasks, storedLabels, today, phase, pc, confirmId>>

\* the "Etiquetas" button and LabelManager onClose (App.tsx:185, 266)
SetLabelManagerOpen(b) ==
    /\ Idle
    /\ isLabelManagerOpen # b
    /\ isLabelManagerOpen' = b
    /\ lastOp' = "other"
    /\ UNCHANGED <<tasks, labels, viewType, activeRange, isTaskModalOpen, editingTask,
                   searchQuery, storedTasks, storedLabels, today, phase, pc, confirmId,
                   modalVia>>

\* setLabels followed by the render and the labels effect
SetLabels(list) ==
    /\ labels' = JsArray(list)
    /\ storedLabels' = PersistLabels(JsArray(list))

\* LabelManager onAdd (App.tsx:264); [...labels] throws unless labels is an array
LabelAdd(n, c, now) ==
    /\ Idle
    /\ isLabelManagerOpen
    /\ labels.type = "array"
    /\ Len(labels.items) < MaxLabels
    /\ SetLabels(Append(labels.items, [id |-> <<"l-", now>>, name |-> n, color |-> c]))
    /\ lastOp' = "other"
    /\ UNCHANGED <<tasks, viewType, activeRange, isTaskModalOpen, isLabelManagerOpen,
                   editingTask, searchQuery, storedTasks, today, phase, pc, confirmId,
                   modalVia>>

LabelDeleteTasksMutant(id) ==
    [i \in 1..Len(tasks.items) |->
        Merge(tasks.items[i],
              [labelIds |-> FilterSeq(tasks.items[i].labelIds,
                               {j \in 1..Len(tasks.items[i].labelIds) :
                                    tasks.items[i].labelIds[j] # id})])]

\* what LabelManager onDelete leaves in the task list
LabelDeleteTasks(id) == tasks.items

\* LabelManager onDelete (App.tsx:265)
LabelDelete(id) ==
    /\ Idle
    /\ isLabelManagerOpen
    /\ labels.type = "array"
    /\ \E l \in Range(labels.items) : l.id = id
    /\ SetLabels(FilterSeq(labels.items,
                           {i \in 1..Len(labels.items) : labels.items[i].id # id}))
    /\ tasks' = JsArray(LabelDeleteTasks(id))
    /\ lastOp' = "labelDelete"
    /\ UNCHANGED <<viewType, activeRange, isTaskModalOpen, isLabelManagerOpen,
                   editingTask, searchQuery, storedTasks, today, phase, pc, confirmId,
                   modalVia>>

AllLabelIds == {SeedLabelId} \cup {<<"l-", now>> : now \in ClockValues}
AllTaskIds == RandomIds \cup {"seed1"}

\* The handlers that change the lists, the dialogs and the storage.  The sidebar
\* (activeRange, viewType) only selects what is rendered; it is exercised in
\* SpecView below.
Next ==
    \/ Mount
    \/ Restart
    \/ \E td \in Forms, rnd \in RandomIds : saveTask(td, rnd)
    \/ \E id \in AllTaskIds : toggleTask(id)
    \/ \E id \in AllTaskIds, td \in Forms : NotesUpdateTask(id, td)
    \/ \E id \in AllTaskIds : deleteTask(id)
    \/ \E answer \in BOOLEAN : ConfirmAnswer(answer)
    \/ OpenNewTask
    \/ EmptyStateAction
    \/ \E t \in Range(tasks.items) : EditTask(t)
    \/ CloseTaskModal
    \/ \E b \in BOOLEAN : SetLabelManagerOpen(b)
    \/ \E n \in LabelNames, c \in LabelColors, now \in ClockValues : LabelAdd(n, c, now)
    \/ \E id \in AllLabelIds : LabelDelete(id)

Spec == Init /\ [][Next]_vars

-----------------------------------------------------------------------------
(* The view model as a function of (tasks, searchQuery, activeRange, now):  *)
(* the task list, the query and "now" are drawn from bounded sets, the      *)
(* sidebar selects the range and tasks are toggled.                         *)

ViewTexts ==
    {[id |-> "r1", title |-> <<"a", "B">>, description |-> <<>>],
     [id |-> "r2", title |-> <<"b">>, description |-> <<"B", "a">>]}

ViewTasks ==
    {[id |-> x.id, title |-> x.title, description |-> x.description, dueDate |-> d,
      completed |-> c, priority |-> "medium", labelIds |-> <<>>, createdAt |-> 0] :
        x \in ViewTexts, d \in Days, c \in BOOLEAN}

ViewQueries == {<<>>, <<"A", "b">>, <<"b", "A">>}

ViewLists == UNION {[1..n -> ViewTasks] : n \in 0..MaxViewTasks}

InitView ==
    /\ today \in Todays
    /\ tasks \in {JsArray(l) : l \in ViewLists}
    /\ searchQuery \in ViewQueries
    /\ storedTasks = PersistTasks(tasks)
    /\ labels = INITIAL_LABELS
    /\ storedLabels = PersistLabels(labels)
    /\ viewType = "list"
    /\ activeRange = "today"
    /\ isTaskModalOpen = FALSE
    /\ isLabelManagerOpen = FALSE
    /\ editingTask = <<>>
    /\ phase = "running"
    /\ pc = "idle"
    /\ confirmId = "none"
    /\ modalVia = "none"
    /\ lastOp = "other"

NextView ==
    \/ \E r \in {"past", "today", "tomorrow", "upcoming", "all"} : SelectRange(r)
    \/ \E id \in AllTaskIds : toggleTask(id)

SpecView == InitView /\ [][NextView]_vars

-----------------------------------------------------------------------------
(* Claims about the view model, checked under SpecView *)

FourRanges == {"past", "today", "tomorrow", "upcoming"}
Indices(s) == 1..Len(s)

\* C1: for a fixed "now", exactly one of the four range predicates past, today,
\* tomorrow, upcoming holds for every task, in the range filter (whatever the
\* completed flag) and in the stats (for a task that is not completed); the day
\* before now is past, now is today, now + 1 is tomorrow, any later day upcoming.
C1_ExactlyOneBucket ==
    \A i \in Indices(tasks.items) :
        LET t == tasks.items[i] IN
        /\ Cardinality({r \in FourRanges : RangePredicate(r, t)}) = 1
        /\ Cardinality({k \in FourRanges :
                           \/ k = "past" /\ StatsPast(t)
                           \/ k = "today" /\ StatsToday(t)
                           \/ k = "tomorrow" /\ StatsTomorrow(t)
                           \/ k = "upcoming" /\ StatsUpcoming(t)})
               = (IF t.completed THEN 0 ELSE 1)
        /\ t.dueDate = today - 1 => RangePredicate("past", t)
        /\ t.dueDate = today => RangePredicate("today", t)
        /\ t.dueDate = today + 1 => RangePredicate("tomorrow", t)
        /\ t.dueDate > today + 1 => RangePredicate("upcoming", t)

C1_Witness ==
    \E i, j \in Indices(tasks.items) :
        /\ tasks.items[i].dueDate = today + 1 /\ ~tasks.items[i].completed
        /\ tasks.items[j].dueDate > today + 1 /\ tasks.items[j].completed

Incomplete(lo, hi) ==
    Cardinality({i \in Indices(tasks.items) :
                    /\ ~tasks.items[i].completed
                    /\ lo <= tasks.items[i].dueDate
                    /\ tasks.items[i].dueDate <= hi})

\* C2: whatever the task operations, the query and the range, the four stats
\* counts are the numbers of not-completed tasks due before today, today,
\* tomorrow and later than tomorrow; completed tasks are counted nowhere.
C2_StatsCounts ==
    /\ stats.past = Incomplete(0, today - 1)
    /\ stats.today = Incomplete(today, today)
    /\ stats.tomorrow = Incomplete(today + 1, today + 1)
    /\ stats.upcoming = Incomplete(today + 2, MaxDay)

C2_Witness ==
    /\ \E i \in Indices(tasks.items) :
           tasks.items[i].dueDate = today /\ tasks.items[i].completed
    /\ stats.today = 0
    /\ stats.past = 1
    /\ activeRange = "upcoming"
    /\ searchQuery # <<>>

\* s contains q, compared without regard to case
ContainsNoCase(s, q) ==
    \E k \in 0..(Len(s) - Len(q)) :
        \A j \in 1..Len(q) : LowerChar(s[k + j]) = LowerChar(q[j])

InSelectedRange(t) ==
    \/ activeRange = "all"
    \/ activeRange = "past" /\ t.dueDate < today
    \/ activeRange = "today" /\ t.dueDate = today
    \/ activeRange = "tomorrow" /\ t.dueDate = today + 1
    \/ activeRange = "upcoming" /\ t.dueDate > today + 1

ShouldShow(t) ==
    /\ ContainsNoCase(t.title, searchQuery) \/ ContainsNoCase(t.description, searchQuery)
    /\ InSelectedRange(t)

Occurrences(x, s) == Cardinality({i \in Indices(s) : s[i] = x})

\* C3: filteredTasks holds exactly the tasks whose title or description contains
\* the query without regard to case and whose due date is in the selected range
\* (every matching task under "all"), each as often as the task list holds it;
\* the empty query matches every task.
C3_FilterExact ==
    /\ \A x \in Range(tasks.items) \cup Range(filteredTasks) :
           Occurrences(x, filteredTasks)
               = (IF ShouldShow(x) THEN Occurrences(x, tasks.items) ELSE 0)
    /\ searchQuery = <<>> =>
           \A x \in Range(tasks.items) : InSelectedRange(x) => x \in Range(filteredTasks)

C3_Witness ==
    /\ searchQuery = <<"b", "A">>
    /\ activeRange = "tomorrow"
    /\ Len(tasks.items) = 2
    /\ Len(filteredTasks) = 1
    /\ \A i \in Indices(tasks.items) : tasks.items[i].dueDate = today + 1

\* C4: in filteredTasks every completed task comes after every task that is not
\* completed, whatever the due dates, and within each of the two groups the due
\* dates ascend.
C4_SortOrder ==
    \A i, j \in Indices(filteredTasks) :
        i < j =>
            /\ ~(filteredTasks[i].completed /\ ~filteredTasks[j].completed)
            /\ filteredTasks[i].completed = filteredTasks[j].completed
                   => filteredTasks[i].dueDate <= filteredTasks[j].dueDate

C4_Witness ==
    /\ Len(filteredTasks) = 2
    /\ ~filteredTasks[1].completed /\ filteredTasks[2].completed
    /\ filteredTasks[2].dueDate < filteredTasks[1].dueDate
    /\ tasks.items[1] = filteredTasks[2]

-----------------------------------------------------------------------------
(* Claims about the App component, checked under Spec *)

Ids(s) == [i \in Indices(s) |-> s[i].id]
Distinct(s) == \A i, j \in Indices(s) : i # j => s[i] # s[j]

\* C5: once the persistence effects have run, each stored snapshot is the
\* serialization of the list in memory, and reading the snapshots back (a restart)
\* gives lists identical to those in memory.
C5_RoundTrip ==
    phase = "running" =>
        /\ storedTasks = PersistTasks(tasks)
        /\ storedLabels = PersistLabels(labels)
        /\ storedTasks.kind = "json" /\ JSONparse(storedTasks.doc) = tasks
        /\ storedLabels.kind = "json" /\ JSONparse(storedLabels.doc) = labels
        /\ LoadTasks = tasks
        /\ LoadLabels = labels

C5_Witness ==
    /\ phase = "running"
    /\ lastOp = "deleteConfirmed"
    /\ tasks.items = <<>>
    /\ labels.type = "array"
    /\ Len(labels.items) = 2
    /\ \A i \in Indices(labels.items) : labels.items[i].id # SeedLabelId

ValidStoredList(saved) == saved.kind = "json" /\ saved.doc.type = "array"

\* C6: on startup, for each key by itself, a stored value that is absent,
\* unparsable or no list gives the seed data, and the initial list is never an
\* invalid value.
C6_SeedOnInvalid ==
    phase = "init" =>
        /\ tasks.type = "array"
        /\ labels.type = "array"
        /\ ~ValidStoredList(storedTasks) => tasks = INITIAL_TASKS
        /\ ~ValidStoredList(storedLabels) => labels = INITIAL_LABELS

\* C7: task identifiers are pairwise distinct within the task list and label
\* identifiers within the label list.
C7_UniqueIds ==
    phase = "running" =>
        /\ Distinct(Ids(tasks.items))
        /\ Distinct(Ids(labels.items))

\* C8: deleting a label leaves the task list as it was, dangling label
\* identifiers included; the label list loses the labels with that identifier
\* and nothing else.
C8_LabelDeleteKeepsTasks ==
    [][lastOp' = "labelDelete" =>
          /\ tasks' = tasks
          /\ \E id \in Range(Ids(labels.items)) :
                 /\ \A l \in Range(labels'.items) : l.id # id
                 /\ labels'.items =
                        FilterSeq(labels.items,
                                  {i \in Indices(labels.items) : labels.items[i].id # id})]_vars

C8_Witness ==
    /\ lastOp = "labelDelete"
    /\ \E i \in Indices(tasks.items) :
           \E j \in Indices(tasks.items[i].labelIds) :
               \A l \in Range(labels.items) : l.id # tasks.items[i].labelIds[j]

\* new holds the elements of old at the positions kept, in their order
KeepsExactly(old, new, kept) ==
    \E f \in [Indices(new) -> Indices(old)] :
        /\ \A i, j \in Indices(new) : i < j => f[i] < f[j]
        /\ {f[i] : i \in Indices(new)} = kept
        /\ \A i \in Indices(new) : new[i] = old[f[i]]

C10_ModalEditing ==
    /\ [](editingTask # <<>> => isTaskModalOpen)
    /\ [][lastOp' \in {"saveTaskNew", "saveTaskEdit"} =>
             /\ modalVia \in {"new", "edit"}
             /\ modalVia = "new" =>
                    /\ lastOp' = "saveTaskNew"
                    /\ Len(tasks'.items) = Len(tasks.items) + 1
                    /\ Tail(tasks'.items) = tasks.items
                    /\ ~Head(tasks'.items).completed
             /\ modalVia = "edit" =>
                    /\ lastOp' = "saveTaskEdit"
                    /\ Len(tasks'.items) = Len(tasks.items)
                    /\ \A i \in Indices(tasks.items) :
                           \/ tasks'.items[i] = tasks.items[i]
                           \/ tasks.items[i].id = editingTask[1].id]_vars

C10_Witness ==
    /\ lastOp = "saveTaskNew"
    /\ Len(tasks.items) = 2
    /\ tasks.items[2].completed
    /\ tasks.items[2].title = <<"a", "B">>
    /\ tasks.items[2].id = "seed1"

====
